---- MODULE Spec2Model ----
(***************************************************************************)
(* Model of lib/awsflow/workflow_types.py: the WorkflowType, ActivityType  *)
(* and SignalType descriptors, their option resolution and their           *)
(* context-dependent invocation.                                           *)
(*                                                                         *)
(* Python values: a nullable value is None (the empty tuple) or <<x>>.     *)
(* A dict is a function from its keys.  An exception is the name of its    *)
(* Python class; "" means the operation returned normally.                 *)
(***************************************************************************)
EXTENDS Integers, Sequences, FiniteSets, TLC

VARIABLES workflowTypes, activityTypes, signalTypes, last

vars == <<workflowTypes, activityTypes, signalTypes, last>>

\* ------------------------------------------------------------------ bounds
\* Longest positional-argument list passed to an invocation.
MaxArgs == 1
\* Largest number of keys in a context's per-call option overrides.
MaxOverrides == 1

\* ------------------------------------------------------------ Python values
None == << >>
Some(x) == <<x>>

EmptyDict == [k \in {} |-> None]

\* dict.update: the keys of o win.
Update(d, o) ==
  [k \in (DOMAIN d) \cup (DOMAIN o) |-> IF k \in DOMAIN o THEN o[k] ELSE d[k]]

\* "{0}".format(v) for a nullable string.
Format(v) == IF v = None THEN "None" ELSE v[1]

USE_WORKER_TASK_LIST == Some("USE_WORKER_TASK_LIST")
CHILD_TERMINATE == Some("TERMINATE")

\* utils.str_or_NONE on a nullable string, and on a nullable number.
str_or_NONE(value) == IF value = None THEN "NONE" ELSE value[1]
str_or_NONE_num(value) == IF value = None THEN "NONE" ELSE ToString(value[1])

\* ------------------------------------------------------------ data converters
\* A converter argument is None, an AbstractDataConverter instance (the JSON
\* default or a custom subclass), or an object that is no AbstractDataConverter
\* and has no dumps method.
JSONDataConverter == "JSONDataConverter"
CustomConverter == "CustomConverter"
NotAConverter == "NotAConverter"

AbstractDataConverter == {JSONDataConverter, CustomConverter}
isinstance_AbstractDataConverter(c) == c # None /\ c[1] \in AbstractDataConverter

ConverterArgs == {None, Some(JSONDataConverter), Some(CustomConverter), Some(NotAConverter)}

\* converter.dumps(value): "AttributeError" when the receiver is None or has no
\* dumps; otherwise the payload, tagged by the strategy that produced it.
DumpsFails(c) == ~isinstance_AbstractDataConverter(c)
Dumps(c, value) == [by |-> c[1], data |-> value]

\* ------------------------------------------------------------------ contexts
ContextKinds == {"StartWorkflowContext", "DecisionContext", "ActivityContext", "OtherContext"}
Instances == {"instance_1", "instance_2"}

\* All sub-dicts of d with at most n keys.
SubDicts(d, n) ==
  {[k \in K |-> d[k]] : K \in {S \in SUBSET (DOMAIN d) : Cardinality(S) <= n}}

WorkflowOverrideValues ==
  [task_list |-> [name |-> "tl-O"], version |-> "2.0",
   workflow_id |-> "wf-O", domain |-> "dom-O"]
ActivityOverrideValues ==
  [task_list |-> [name |-> "tl-O"], heartbeat_timeout |-> "5",
   activity_type_name |-> Some("renamed")]

WorkflowOverrides == SubDicts(WorkflowOverrideValues, MaxOverrides)
ActivityOverrides == SubDicts(ActivityOverrideValues, MaxOverrides)

Context(kind, started, workflow, wo, ao) ==
  [kind |-> kind,
   worker |-> [domain |-> "dom-1"],
   decider |-> [execution_started |-> started, task_list |-> "tl-D"],
   workflow |-> workflow,
   _workflow_options_overrides |-> wo,
   _activity_options_overrides |-> ao]

\* No context is active: get_context() raises AttributeError.
NoContext == Context("NoContext", FALSE, "instance_1", EmptyDict, EmptyDict)

\* The contexts an invocation may find: none, or one of each kind.  Start and
\* Decision contexts carry overrides from WO and AO; a Decision context also
\* carries the decider's execution_started and the executing workflow instance.
Contexts(WO, AO, Started, Workflows) ==
  {NoContext}
  \cup {Context(k, FALSE, "instance_1", EmptyDict, EmptyDict) :
          k \in {"ActivityContext", "OtherContext"}}
  \cup {Context("StartWorkflowContext", FALSE, "instance_1", wo, ao) :
          wo \in WO, ao \in AO}
  \cup {Context("DecisionContext", s, w, wo, ao) :
          s \in Started, w \in Workflows, wo \in WO, ao \in AO}

get_context_fails(context) == context.kind = "NoContext"

\* ------------------------------------------------------------ invocation inputs
ArgLists == UNION {[1..n -> {"x"}] : n \in 0..MaxArgs}

\* The (args, kwargs) of an invocation.
CallInputs == {<<args, EmptyDict>> : args \in ArgLists} \cup {<<<< >>, [key |-> "v"]>>}

\* What the collaborators answer when asked: the worker's (workflow_id, run_id)
\* for a started execution, the decider's return value.
ExternalAnswers ==
  {[started |-> <<"wf-1", "run-1">>, future |-> "future_1"],
   [started |-> <<"wf-2", "run-2">>, future |-> "future_2"]}

\* ------------------------------------------------------- record of an operation
\* last describes the most recent operation: what was called on which object,
\* in which context, how it ended, and the requests it delegated to the worker
\* and to the decider.
NoRet == [tag |-> "None"]

Op(op, kind, self) ==
  [op |-> op, kind |-> kind, self |-> self, other |-> self,
   context |-> NoContext, instance |-> "instance_1", input |-> <<<< >>, EmptyDict>>,
   err |-> "", ret |-> NoRet, workerOps |-> << >>, deciderOps |-> << >>]

Raise(o, e) == [o EXCEPT !.err = e]
Return(o, r) == [o EXCEPT !.ret = r]

\* -------------------------------------------------------------- WorkflowType
WorkflowTypeIds == {"wt_1", "wt_2"}

WorkflowExecution(workflow_id, run_id) ==
  [workflow_id |-> workflow_id, run_id |-> run_id]

\* The data_converter property setter: the value stored, or the error raised.
data_converter_setter(converter) ==
  IF converter = None THEN [err |-> "", value |-> Some(JSONDataConverter)]
  ELSE IF isinstance_AbstractDataConverter(converter)
       THEN [err |-> "", value |-> converter]
       ELSE [err |-> "TypeError", value |-> None]

WorkflowType__init__(id, version, execution_start_to_close_timeout, task_list, name, data_converter, skip_registration) ==
  LET o == Op("__init__", "WorkflowType", id)
      set == data_converter_setter(data_converter)
      self == [version |-> version,
               name |-> name,
               task_list |-> task_list,
               child_policy |-> CHILD_TERMINATE,
               execution_start_to_close_timeout |-> execution_start_to_close_timeout,
               task_start_to_close_timeout |-> Some(30),
               description |-> Some(""),
               skip_registration |-> skip_registration,
               workflow_id |-> None,
               _data_converter |-> set.value]
  IN /\ id \notin DOMAIN workflowTypes
     /\ IF set.err # ""
        THEN /\ last' = Raise(o, set.err)
             /\ UNCHANGED workflowTypes
        ELSE /\ workflowTypes' = (id :> self) @@ workflowTypes
             /\ last' = o
     /\ UNCHANGED <<activityTypes, signalTypes>>

\* self.data_converter = converter on a constructed WorkflowType.
WorkflowType_set_data_converter(id, converter) ==
  LET o == Op("data_converter.setter", "WorkflowType", id)
      set == data_converter_setter(converter)
  IN /\ id \in DOMAIN workflowTypes
     /\ IF set.err # ""
        THEN /\ last' = Raise(o, set.err)
             /\ UNCHANGED workflowTypes
        ELSE /\ workflowTypes' =
                  [workflowTypes EXCEPT ![id]._data_converter = set.value]
             /\ last' = o
     /\ UNCHANGED <<activityTypes, signalTypes>>

\* The error to_decision_dict ends with: dumps comes first, then get_context().
WorkflowType_to_decision_dict_err(self, context) ==
  IF DumpsFails(self._data_converter) THEN "AttributeError"
  ELSE IF get_context_fails(context) THEN "AttributeError"
  ELSE ""

\* Mutant: the worker's task list always wins.
WorkflowType_task_list_worker(self, worker_task_list) == worker_task_list

\* The task list to_decision_dict resolves before stringifying it.
WorkflowType_task_list(self, worker_task_list) ==
  IF self.task_list = USE_WORKER_TASK_LIST THEN worker_task_list ELSE self.task_list

\* The map to_decision_dict returns in `context`.
WorkflowType_to_decision_dict(self, input, workflow_id, worker_task_list, domain, context) ==
  LET task_list == WorkflowType_task_list(self, worker_task_list)
      decision_dict ==
        [workflow_type |-> [version |-> self.version, name |-> self.name],
         task_list |-> [name |-> str_or_NONE(task_list)],
         child_policy |-> str_or_NONE(self.child_policy),
         execution_start_to_close_timeout |->
             str_or_NONE_num(self.execution_start_to_close_timeout),
         task_start_to_close_timeout |->
             str_or_NONE_num(self.task_start_to_close_timeout),
         input |-> Dumps(self._data_converter, input)]
      with_id ==
        IF workflow_id # None /\ self.workflow_id = None
        THEN Update(decision_dict, [workflow_id |-> workflow_id[1]])
        ELSE decision_dict
      with_domain ==
        IF domain # None THEN Update(with_id, [domain |-> domain[1]]) ELSE with_id
  IN Update(with_domain, context._workflow_options_overrides)

_continue_as_new_keys ==
  {"task_start_to_close_timeout", "child_policy", "task_list",
   "execution_start_to_close_timeout", "version", "input"}

\* Mutant: the whole decision map is passed on.
continue_as_new_projection_all(decision_dict) == decision_dict

\* The projection of a decision map onto the continue-as-new keys.
continue_as_new_projection(decision_dict) ==
  [key \in _continue_as_new_keys \cap DOMAIN decision_dict |-> decision_dict[key]]

WorkflowType_to_continue_as_new_dict(self, input, worker_task_list, context) ==
  continue_as_new_projection(
    WorkflowType_to_decision_dict(self, input, None, worker_task_list, None, context))

WorkflowType_to_registration_options_dict(self, domain, worker_task_list) ==
  IF self.skip_registration THEN NoRet
  ELSE [tag |-> "dict",
        dict |->
          [domain |-> domain,
           version |-> self.version,
           name |-> self.name,
           default_task_list |->
             [name |-> str_or_NONE(WorkflowType_task_list(self, worker_task_list))],
           default_child_policy |-> str_or_NONE(self.child_policy),
           default_execution_start_to_close_timeout |->
             str_or_NONE_num(self.execution_start_to_close_timeout),
           default_task_start_to_close_timeout |->
             str_or_NONE_num(self.task_start_to_close_timeout),
           description |-> str_or_NONE(self.description)]]

\* _reset_name: the name after the call.
WorkflowType_reset_name_value(self, name, force) ==
  IF self.name = None \/ force THEN name ELSE self.name

\* The class defines __hash__ and no __eq__: == is the default object identity.
WorkflowType__eq__(a, b) == a = b
WorkflowType__hash__(self) == Format(self.name) \o self.version

\* Mutant: the Start path's handle left unbound, as on the child path.
WorkflowType_started_instance_unbound(self, started) ==
  [tag |-> "workflow_instance",
   workflow_execution |-> WorkflowExecution(None, None),
   _data_converter |-> self._data_converter]

\* The handle the Start path returns for the execution the worker started.
WorkflowType_started_instance(self, started) ==
  [tag |-> "workflow_instance",
   workflow_execution |-> WorkflowExecution(Some(started[1]), Some(started[2])),
   _data_converter |-> self._data_converter]

\* The handle the child path hands to the decider: its execution is not yet known.
WorkflowType_child_instance(self) ==
  [workflow_execution |-> WorkflowExecution(None, None),
   _data_converter |-> self._data_converter]

\* Mutant: every call in a Decision context is taken for a child start.
WorkflowType_is_continuation_never(context, instance) == FALSE

\* context.workflow == _instance: the call targets the executing workflow itself.
WorkflowType_is_continuation(context, instance) == context.workflow = instance

\* Mutant: the final else branch returns None instead of raising.
WorkflowType_unsupported_context_silent(o) == o

\* The final else branch: the context is neither a Start nor a Decision context.
WorkflowType_unsupported_context(o) == Raise(o, "NotImplementedError")

\* What __call__ does in `context` for the call target `instance`; `started` is
\* the (workflow_id, run_id) the worker answers with and `future` the value the
\* decider answers with, should they be asked.
WorkflowType__call__result(id, self, context, instance, args, kwargs, started, future) ==
  LET o == [Op("__call__", "WorkflowType", id) EXCEPT
              !.context = context, !.instance = instance, !.input = <<args, kwargs>>]
  IN IF get_context_fails(context) THEN Raise(o, "AttributeError")
     ELSE IF context.kind = "StartWorkflowContext"
     THEN [o EXCEPT
             !.workerOps =
                <<[op |-> "_start_workflow_execution", workflow_type |-> id,
                   args |-> args, kwargs |-> kwargs, returned |-> started]>>,
             !.ret = WorkflowType_started_instance(self, started)]
     ELSE IF context.kind = "DecisionContext"
     THEN IF context.decider.execution_started
          THEN IF WorkflowType_is_continuation(context, instance)
               THEN IF WorkflowType_to_decision_dict_err(self, context) # ""
                    THEN Raise(o, WorkflowType_to_decision_dict_err(self, context))
                    ELSE [o EXCEPT
                            !.deciderOps =
                               <<[op |-> "_continue_as_new_workflow_execution",
                                  kwargs |->
                                    WorkflowType_to_continue_as_new_dict(
                                      self, <<args, kwargs>>,
                                      Some(context.decider.task_list), context),
                                  returned |-> future]>>,
                            !.ret = [tag |-> "decider", value |-> future]]
               ELSE [o EXCEPT
                       !.deciderOps =
                          <<[op |-> "_handle_start_child_workflow_execution",
                             workflow_type |-> id,
                             workflow_instance |-> WorkflowType_child_instance(self),
                             input |-> <<args, kwargs>>,
                             returned |-> future]>>,
                       !.ret = [tag |-> "decider", value |-> future]]
          ELSE o
     ELSE WorkflowType_unsupported_context(o)

WorkflowType__call__(id, context, instance, args, kwargs) ==
  /\ id \in DOMAIN workflowTypes
  /\ \E answer \in ExternalAnswers :
       last' = WorkflowType__call__result(id, workflowTypes[id], context, instance,
                                          args, kwargs, answer.started, answer.future)
  /\ UNCHANGED <<workflowTypes, activityTypes, signalTypes>>

WorkflowType_call_to_decision_dict(id, context, input, workflow_id, worker_task_list, domain) ==
  LET self == workflowTypes[id]
      o == [Op("to_decision_dict", "WorkflowType", id) EXCEPT
              !.context = context,
              !.input = <<input, [workflow_id |-> workflow_id,
                                  worker_task_list |-> worker_task_list,
                                  domain |-> domain]>>]
      err == WorkflowType_to_decision_dict_err(self, context)
  IN /\ id \in DOMAIN workflowTypes
     /\ last' = IF err # "" THEN Raise(o, err)
                ELSE Return(o, [tag |-> "dict",
                                dict |-> WorkflowType_to_decision_dict(
                                           self, input, workflow_id,
                                           worker_task_list, domain, context)])
     /\ UNCHANGED <<workflowTypes, activityTypes, signalTypes>>

WorkflowType_call_to_continue_as_new_dict(id, context, input, worker_task_list) ==
  LET self == workflowTypes[id]
      o == [Op("to_continue_as_new_dict", "WorkflowType", id) EXCEPT
              !.context = context,
              !.input = <<input, [worker_task_list |-> worker_task_list]>>]
      err == WorkflowType_to_decision_dict_err(self, context)
  IN /\ id \in DOMAIN workflowTypes
     /\ last' = IF err # "" THEN Raise(o, err)
                ELSE Return(o, [tag |-> "dict",
                                dict |-> WorkflowType_to_continue_as_new_dict(
                                           self, input, worker_task_list, context)])
     /\ UNCHANGED <<workflowTypes, activityTypes, signalTypes>>

WorkflowType_call_to_registration_options_dict(id, domain, worker_task_list) ==
  LET o == [Op("to_registration_options_dict", "WorkflowType", id) EXCEPT
              !.input = <<<< >>, [domain |-> domain,
                                   worker_task_list |-> worker_task_list]>>]
  IN /\ id \in DOMAIN workflowTypes
     /\ last' = Return(o, WorkflowType_to_registration_options_dict(
                            workflowTypes[id], domain, worker_task_list))
     /\ UNCHANGED <<workflowTypes, activityTypes, signalTypes>>

WorkflowType_reset_name(id, name, force) ==
  LET o == [Op("_reset_name", "WorkflowType", id) EXCEPT
              !.input = <<<< >>, [name |-> name, force |-> force]>>]
  IN /\ id \in DOMAIN workflowTypes
     /\ workflowTypes' =
          [workflowTypes EXCEPT
             ![id].name = WorkflowType_reset_name_value(workflowTypes[id], name, force)]
     /\ last' = o
     /\ UNCHANGED <<activityTypes, signalTypes>>

\* Two descriptors used as dict keys or set members: a == b, and the two hashes.
WorkflowType_compare(a, b) ==
  /\ a \in DOMAIN workflowTypes
  /\ b \in DOMAIN workflowTypes
  /\ last' = [Op("compare", "WorkflowType", a) EXCEPT
                !.other = b,
                !.ret = [tag |-> "compare",
                         eq |-> WorkflowType__eq__(a, b),
                         hash_eq |-> WorkflowType__hash__(workflowTypes[a])
                                       = WorkflowType__hash__(workflowTypes[b])]]
  /\ UNCHANGED <<workflowTypes, activityTypes, signalTypes>>

\* -------------------------------------------------------------- ActivityType
ActivityTypeIds == {"at_1"}
ActivityNames == {None, Some("act")}

\* ActivityType.__init__ stores data_converter unchecked, None becoming the default.
ActivityType_converter(data_converter) ==
  IF data_converter = None THEN Some(JSONDataConverter) ELSE data_converter

ActivityType__init__(id, version, name, task_list, heartbeat_timeout, data_converter, skip_registration) ==
  LET self == [version |-> version,
               name |-> name,
               task_list |-> task_list,
               heartbeat_timeout |-> heartbeat_timeout,
               schedule_to_start_timeout |-> None,
               start_to_close_timeout |-> None,
               schedule_to_close_timeout |-> None,
               description |-> None,
               skip_registration |-> skip_registration,
               data_converter |-> ActivityType_converter(data_converter)]
  IN /\ id \notin DOMAIN activityTypes
     /\ activityTypes' = (id :> self) @@ activityTypes
     /\ last' = Op("__init__", "ActivityType", id)
     /\ UNCHANGED <<workflowTypes, signalTypes>>

\* self.data_converter = converter: a plain attribute, stored as given.
ActivityType_set_data_converter(id, converter) ==
  /\ id \in DOMAIN activityTypes
  /\ activityTypes' = [activityTypes EXCEPT ![id].data_converter = converter]
  /\ last' = Op("data_converter.setter", "ActivityType", id)
  /\ UNCHANGED <<workflowTypes, signalTypes>>

ActivityType_set_activities_value(id, key, value) ==
  /\ id \in DOMAIN activityTypes
  /\ activityTypes' =
       IF activityTypes[id][key] = None
       THEN [activityTypes EXCEPT ![id][key] = value]
       ELSE activityTypes
  /\ last' = Op("_set_activities_value", "ActivityType", id)
  /\ UNCHANGED <<workflowTypes, signalTypes>>

\* _reset_name: the name after the call.
ActivityType_reset_name_value(self, cls, func, activity_name_prefix) ==
  IF self.name = None
  THEN Some(cls \o "." \o func)
  ELSE Some(activity_name_prefix \o self.name[1])

\* The naming pass runs on a name as constructed.
ActivityType_reset_name(id, cls, func, activity_name_prefix) ==
  /\ id \in DOMAIN activityTypes
  /\ activityTypes[id].name \in ActivityNames
  /\ activityTypes' =
       [activityTypes EXCEPT
          ![id].name = ActivityType_reset_name_value(
                         activityTypes[id], cls, func, activity_name_prefix)]
  /\ last' = Op("_reset_name", "ActivityType", id)
  /\ UNCHANGED <<workflowTypes, signalTypes>>

ActivityType_to_decision_dict(self) ==
  [activity_type_version |-> self.version,
   activity_type_name |-> self.name,
   task_list |-> [name |-> str_or_NONE(self.task_list)],
   heartbeat_timeout |-> str_or_NONE_num(self.heartbeat_timeout),
   schedule_to_start_timeout |-> str_or_NONE_num(self.schedule_to_start_timeout),
   start_to_close_timeout |-> str_or_NONE_num(self.start_to_close_timeout),
   schedule_to_close_timeout |-> str_or_NONE_num(self.schedule_to_close_timeout)]

ActivityType_to_registration_options_dict(self, domain, worker_task_list) ==
  IF self.skip_registration THEN NoRet
  ELSE [tag |-> "dict",
        dict |->
          [domain |-> domain,
           version |-> self.version,
           name |-> self.name,
           default_task_list |->
             [name |-> str_or_NONE(IF self.task_list = USE_WORKER_TASK_LIST
                                   THEN worker_task_list ELSE self.task_list)],
           default_task_heartbeat_timeout |-> str_or_NONE_num(self.heartbeat_timeout),
           default_task_schedule_to_start_timeout |->
             str_or_NONE_num(self.schedule_to_start_timeout),
           default_task_start_to_close_timeout |->
             str_or_NONE_num(self.start_to_close_timeout),
           default_task_schedule_to_close_timeout |->
             str_or_NONE_num(self.schedule_to_close_timeout),
           description |-> str_or_NONE(self.description)]]

ActivityType_call_to_decision_dict(id) ==
  /\ id \in DOMAIN activityTypes
  /\ last' = Return(Op("to_decision_dict", "ActivityType", id),
                    [tag |-> "dict",
                     dict |-> ActivityType_to_decision_dict(activityTypes[id])])
  /\ UNCHANGED <<workflowTypes, activityTypes, signalTypes>>

ActivityType_call_to_registration_options_dict(id, domain, worker_task_list) ==
  /\ id \in DOMAIN activityTypes
  /\ last' = Return(Op("to_registration_options_dict", "ActivityType", id),
                    ActivityType_to_registration_options_dict(
                      activityTypes[id], domain, worker_task_list))
  /\ UNCHANGED <<workflowTypes, activityTypes, signalTypes>>

\* Mutant: the descriptor's own values win over the context's overrides.
ActivityType_call_decision_dict_reversed(self, context) ==
  Update(context._activity_options_overrides, ActivityType_to_decision_dict(self))

\* The decision map __call__ passes on: the overrides are applied on top.
ActivityType_call_decision_dict(self, context) ==
  Update(ActivityType_to_decision_dict(self), context._activity_options_overrides)

\* What __call__ does in `context`; `future` is the decider's answer.  With no
\* active context get_context()'s AttributeError is caught and context is None.
ActivityType__call__result(id, self, context, args, kwargs, future) ==
  LET o == [Op("__call__", "ActivityType", id) EXCEPT
              !.context = context, !.input = <<args, kwargs>>]
  IN IF get_context_fails(context) \/ context.kind # "DecisionContext"
     THEN Raise(o, "TypeError")
     ELSE [o EXCEPT
             !.deciderOps =
                <<[op |-> "_handle_execute_activity",
                   activity_type |-> id,
                   decision_dict |-> ActivityType_call_decision_dict(self, context),
                   args |-> args, kwargs |-> kwargs,
                   returned |-> future]>>,
             !.ret = [tag |-> "decider", value |-> future]]

ActivityType__call__(id, context, args, kwargs) ==
  /\ id \in DOMAIN activityTypes
  /\ \E answer \in ExternalAnswers :
       last' = ActivityType__call__result(id, activityTypes[id], context,
                                          args, kwargs, answer.future)
  /\ UNCHANGED <<workflowTypes, activityTypes, signalTypes>>

\* ---------------------------------------------------------------- SignalType
SignalTypeIds == {"st_1"}
TargetArgs == {None, Some(WorkflowExecution(Some("wf-1"), Some("run-1")))}

\* Mutant: __init__ keeps the target it is given.
SignalType_init_workflow_execution_kept(workflow_execution) == workflow_execution

\* The workflow_execution __init__ stores, whatever the argument.
SignalType_init_workflow_execution(workflow_execution) == None

SignalType__init__(id, name, data_converter, workflow_execution) ==
  LET self == [name |-> name,
               data_converter |-> data_converter,
               workflow_execution |->
                 SignalType_init_workflow_execution(workflow_execution)]
  IN /\ id \notin DOMAIN signalTypes
     /\ signalTypes' = (id :> self) @@ signalTypes
     /\ last' = [Op("__init__", "SignalType", id) EXCEPT
                   !.input = <<<< >>, [data_converter |-> data_converter,
                                        workflow_execution |-> workflow_execution]>>]
     /\ UNCHANGED <<workflowTypes, activityTypes>>

\* self.data_converter = converter: a plain attribute, stored as given.
SignalType_set_data_converter(id, converter) ==
  /\ id \in DOMAIN signalTypes
  /\ signalTypes' = [signalTypes EXCEPT ![id].data_converter = converter]
  /\ last' = Op("data_converter.setter", "SignalType", id)
  /\ UNCHANGED <<workflowTypes, activityTypes>>

\* self.workflow_execution = target, assigned after construction.
SignalType_set_workflow_execution(id, workflow_execution) ==
  /\ id \in DOMAIN signalTypes
  /\ signalTypes' = [signalTypes EXCEPT ![id].workflow_execution = workflow_execution]
  /\ last' = Op("workflow_execution.setter", "SignalType", id)
  /\ UNCHANGED <<workflowTypes, activityTypes>>

\* to_decision_dict, to_registration_options_dict and _reset_name all raise.
SignalType_not_applicable(id, op) ==
  /\ id \in DOMAIN signalTypes
  /\ last' = Raise(Op(op, "SignalType", id), "NotImplementedError")
  /\ UNCHANGED <<workflowTypes, activityTypes, signalTypes>>

\* What __call__ does in `context`, statement by statement.
SignalType__call__result(id, self, context, args, kwargs) ==
  LET o == [Op("__call__", "SignalType", id) EXCEPT
              !.context = context, !.input = <<args, kwargs>>]
  IN IF DumpsFails(self.data_converter) THEN Raise(o, "AttributeError")
     ELSE IF get_context_fails(context) THEN Raise(o, "AttributeError")
     ELSE IF context.kind \notin {"StartWorkflowContext", "ActivityContext"}
     THEN Raise(o, "RuntimeError")
     ELSE IF self.workflow_execution = None THEN Raise(o, "AttributeError")
     ELSE [o EXCEPT
             !.workerOps =
                <<[op |-> "_signal_workflow_execution_op",
                   domain |-> context.worker.domain,
                   signal_name |-> self.name,
                   workflow_id |-> self.workflow_execution[1].workflow_id,
                   run_id |-> self.workflow_execution[1].run_id,
                   input |-> Dumps(self.data_converter, <<args, kwargs>>)]>>]

SignalType__call__(id, context, args, kwargs) ==
  /\ id \in DOMAIN signalTypes
  /\ last' = SignalType__call__result(id, signalTypes[id], context, args, kwargs)
  /\ UNCHANGED <<workflowTypes, activityTypes, signalTypes>>

\* ------------------------------------------------------------ specifications
Init ==
  /\ workflowTypes = << >>
  /\ activityTypes = << >>
  /\ signalTypes = << >>
  /\ last = Op("none", "none", "none")

TaskLists == {USE_WORKER_TASK_LIST, Some("tl-B")}
WorkerTaskLists == {None, Some("tl-A")}

\* One WorkflowType: construction, converter assignment and invocation.
NextWorkflow ==
  \E id \in {"wt_1"} :
    \/ \E task_list \in TaskLists, data_converter \in ConverterArgs :
         WorkflowType__init__(id, "1.0", Some(3600), task_list, Some("Foo"),
                              data_converter, FALSE)
    \/ \E converter \in ConverterArgs :
         WorkflowType_set_data_converter(id, converter)
    \/ \E context \in Contexts(WorkflowOverrides, {EmptyDict}, BOOLEAN, Instances),
          instance \in Instances, input \in CallInputs :
         WorkflowType__call__(id, context, instance, input[1], input[2])

SpecWorkflow == Init /\ [][NextWorkflow]_vars

\* The contexts the map builders are run in: they read only the overrides.
OptionContexts ==
  {c \in Contexts(WorkflowOverrides, {EmptyDict}, {TRUE}, {"instance_1"}) :
     c.kind \in {"NoContext", "DecisionContext"}}

\* One WorkflowType: the maps it produces.
NextOptions ==
  \E id \in {"wt_1"} :
    \/ \E task_list \in TaskLists, data_converter \in {None, Some(CustomConverter)},
          skip_registration \in BOOLEAN :
         WorkflowType__init__(id, "1.0", Some(3600), task_list, Some("Foo"),
                              data_converter, skip_registration)
    \/ \E context \in OptionContexts,
          input \in CallInputs, workflow_id \in {None, Some("wf-7")},
          worker_task_list \in WorkerTaskLists, domain \in {None, Some("dom-2")} :
         WorkflowType_call_to_decision_dict(id, context, input,
                                            workflow_id, worker_task_list, domain)
    \/ \E context \in OptionContexts,
          input \in CallInputs, worker_task_list \in WorkerTaskLists :
         WorkflowType_call_to_continue_as_new_dict(id, context, input, worker_task_list)
    \/ \E worker_task_list \in WorkerTaskLists :
         WorkflowType_call_to_registration_options_dict(id, "dom-1", worker_task_list)

SpecOptions == Init /\ [][NextOptions]_vars

\* Several WorkflowType objects used as keys: their names, versions and hashes.
NextIdentity ==
  \E a \in WorkflowTypeIds, b \in WorkflowTypeIds :
    \/ \E version \in {"c", "bc"}, name \in {None, Some("a"), Some("ab"), Some("None")} :
         WorkflowType__init__(a, version, Some(3600), USE_WORKER_TASK_LIST, name,
                              None, FALSE)
    \/ \E force \in BOOLEAN :
         WorkflowType_reset_name(a, Some("ab"), force)
    \/ WorkflowType_compare(a, b)

SpecIdentity == Init /\ [][NextIdentity]_vars

NextActivity ==
  \E id \in ActivityTypeIds :
    \/ \E name \in ActivityNames, task_list \in TaskLists,
          heartbeat_timeout \in {None},
          data_converter \in ConverterArgs, skip_registration \in BOOLEAN :
         ActivityType__init__(id, "1.0", name, task_list, heartbeat_timeout,
                              data_converter, skip_registration)
    \/ \E converter \in ConverterArgs :
         ActivityType_set_data_converter(id, converter)
    \/ \E key \in {"heartbeat_timeout", "start_to_close_timeout"} :
         ActivityType_set_activities_value(id, key, Some(60))
    \/ ActivityType_reset_name(id, "Cls", "func", "p_")
    \/ ActivityType_call_to_decision_dict(id)
    \/ \E worker_task_list \in WorkerTaskLists :
         ActivityType_call_to_registration_options_dict(id, "dom-1", worker_task_list)
    \/ \E context \in Contexts({EmptyDict}, ActivityOverrides, {TRUE}, {"instance_1"}),
          input \in CallInputs :
         ActivityType__call__(id, context, input[1], input[2])

SpecActivity == Init /\ [][NextActivity]_vars

NextSignal ==
  \E id \in SignalTypeIds :
    \/ \E data_converter \in ConverterArgs, workflow_execution \in TargetArgs :
         SignalType__init__(id, "sig", data_converter, workflow_execution)
    \/ \E converter \in ConverterArgs :
         SignalType_set_data_converter(id, converter)
    \/ \E workflow_execution \in TargetArgs :
         SignalType_set_workflow_execution(id, workflow_execution)
    \/ \E op \in {"to_decision_dict", "to_registration_options_dict", "_reset_name"} :
         SignalType_not_applicable(id, op)
    \/ \E context \in Contexts({EmptyDict}, {EmptyDict}, {TRUE}, {"instance_1"}),
          input \in CallInputs :
         SignalType__call__(id, context, input[1], input[2])

SpecSignal == Init /\ [][NextSignal]_vars

\* --------------------------------------------------------------------- claims
WorkflowCall == last.op = "__call__" /\ last.kind = "WorkflowType"
NoDelegation == last.workerOps = << >> /\ last.deciderOps = << >>

\* What C1 asks of an invocation in a Decision context: exactly one decider
\* operation and nothing for the worker; continue-as-new, built with the
\* decider's task list, when the call target is the executing workflow, and
\* otherwise a child start with a handle bound to (None, None), the decider's
\* future being returned.
DecisionDelegates ==
  LET self == workflowTypes[last.self]
      d == last.deciderOps[1]
  IN /\ last.err = ""
     /\ last.workerOps = << >>
     /\ Len(last.deciderOps) = 1
     /\ IF last.context.workflow = last.instance
        THEN /\ d.op = "_continue_as_new_workflow_execution"
             /\ d.kwargs = WorkflowType_to_continue_as_new_dict(
                             self, last.input, Some(last.context.decider.task_list),
                             last.context)
             /\ (/\ self.task_list = USE_WORKER_TASK_LIST
                 /\ "task_list" \notin DOMAIN last.context._workflow_options_overrides)
                  => d.kwargs.task_list.name = last.context.decider.task_list
        ELSE /\ d.op = "_handle_start_child_workflow_execution"
             /\ d.workflow_type = last.self
             /\ d.workflow_instance.workflow_execution = WorkflowExecution(None, None)
             /\ d.workflow_instance._data_converter = self._data_converter
             /\ d.input = last.input
             /\ last.ret = [tag |-> "decider", value |-> d.returned]

\* C1 as stated: every invocation in a Decision context delegates exactly one
\* decider operation, continue-as-new or child start by the call target.
C1_AsStated ==
  (WorkflowCall /\ last.context.kind = "DecisionContext") => DecisionDelegates

\* C1 amended: an invocation in a Decision context whose decider has
\* execution_started set delegates exactly one decider operation, chosen by the
\* call target; when execution_started is not set it delegates nothing and
\* returns None.
C1_Dispatch ==
  (WorkflowCall /\ last.context.kind = "DecisionContext") =>
     IF last.context.decider.execution_started
     THEN DecisionDelegates
     ELSE NoDelegation /\ last.err = "" /\ last.ret = NoRet

C1_Witness ==
  /\ WorkflowCall
  /\ last.context.kind = "DecisionContext"
  /\ last.context.decider.execution_started
  /\ last.context.workflow = last.instance
  /\ Len(last.deciderOps) = 1
  /\ last.deciderOps[1].op = "_continue_as_new_workflow_execution"
  /\ last.deciderOps[1].kwargs.task_list.name = "tl-D"

\* C2: in a Start context an invocation makes exactly one start-workflow-execution
\* request to the worker and no decider operation, and returns a handle bound to
\* the (workflow_id, run_id) the worker answered and to the descriptor's converter.
C2_StartPath ==
  (WorkflowCall /\ last.context.kind = "StartWorkflowContext") =>
     /\ last.err = ""
     /\ last.deciderOps = << >>
     /\ Len(last.workerOps) = 1
     /\ last.workerOps[1].op = "_start_workflow_execution"
     /\ last.workerOps[1].workflow_type = last.self
     /\ last.workerOps[1].args = last.input[1]
     /\ last.workerOps[1].kwargs = last.input[2]
     /\ last.ret.tag = "workflow_instance"
     /\ last.ret.workflow_execution =
          WorkflowExecution(Some(last.workerOps[1].returned[1]),
                            Some(last.workerOps[1].returned[2]))
     /\ last.ret._data_converter = workflowTypes[last.self]._data_converter

C2_Witness ==
  /\ WorkflowCall
  /\ last.context.kind = "StartWorkflowContext"
  /\ last.ret.tag = "workflow_instance"
  /\ last.ret.workflow_execution = WorkflowExecution(Some("wf-2"), Some("run-2"))
  /\ last.ret._data_converter = Some(CustomConverter)

\* C3 as stated: an invocation in no context, or in a context that is neither
\* a Start nor a Decision context, fails with the unsupported-context error
\* (NotImplementedError) and delegates nothing.
C3_AsStated ==
  (WorkflowCall /\ last.context.kind \notin {"StartWorkflowContext", "DecisionContext"}) =>
     last.err = "NotImplementedError" /\ NoDelegation

\* C3 amended: in a context of another kind the invocation fails with the
\* unsupported-context error; with no active context it fails with the context
\* lookup's AttributeError; in both cases nothing is delegated.
C3_OtherContexts ==
  (WorkflowCall /\ last.context.kind \notin {"StartWorkflowContext", "DecisionContext"}) =>
     /\ NoDelegation
     /\ last.err = IF last.context.kind = "NoContext"
                   THEN "AttributeError" ELSE "NotImplementedError"

C3_Witness ==
  /\ WorkflowCall
  /\ last.context.kind = "ActivityContext"
  /\ last.err = "NotImplementedError"
  /\ NoDelegation

ActivityCall == last.op = "__call__" /\ last.kind = "ActivityType"

\* C4: an ActivityType invocation delegates to the decider's execute-activity
\* operation exactly when the context is a Decision context: there it delegates
\* once, with the activity decision map and the context's activity-option
\* overrides on top, and returns the decider's handle; in no context, or in a
\* context of another kind, it fails with TypeError and calls no decider.
C4_ActivityDispatch ==
  ActivityCall =>
     LET self == activityTypes[last.self]
         overrides == last.context._activity_options_overrides
         base == ActivityType_to_decision_dict(self)
         d == last.deciderOps[1]
     IN /\ last.workerOps = << >>
        /\ (Len(last.deciderOps) > 0) <=> (last.context.kind = "DecisionContext")
        /\ IF last.context.kind = "DecisionContext"
           THEN /\ last.err = ""
                /\ Len(last.deciderOps) = 1
                /\ d.op = "_handle_execute_activity"
                /\ d.activity_type = last.self
                /\ d.args = last.input[1]
                /\ d.kwargs = last.input[2]
                /\ DOMAIN d.decision_dict = (DOMAIN base) \cup (DOMAIN overrides)
                /\ \A k \in DOMAIN overrides : d.decision_dict[k] = overrides[k]
                /\ \A k \in (DOMAIN base) \ (DOMAIN overrides) :
                      d.decision_dict[k] = base[k]
                /\ last.ret = [tag |-> "decider", value |-> d.returned]
           ELSE last.err = "TypeError"

C4_Witness ==
  /\ ActivityCall
  /\ last.context.kind = "DecisionContext"
  /\ Len(last.deciderOps) = 1
  /\ "task_list" \in DOMAIN last.context._activity_options_overrides
  /\ last.deciderOps[1].decision_dict.task_list.name = "tl-O"
  /\ activityTypes[last.self].task_list = Some("tl-B")

SignalCall == last.op = "__call__" /\ last.kind = "SignalType"

\* C5 as stated: invoking a SignalType with a bound target succeeds in a Start
\* or an Activity context, returns nothing and makes exactly one signal request
\* carrying the worker's domain, the signal name, the bound workflow id and run
\* id and the serialized (args, kwargs); in a context of another kind it fails
\* with RuntimeError and makes no request.
C5_AsStated ==
  (SignalCall /\ signalTypes[last.self].workflow_execution # None
     /\ last.context.kind # "NoContext") =>
     LET self == signalTypes[last.self]
         w == last.workerOps[1]
     IN /\ last.deciderOps = << >>
        /\ IF last.context.kind \in {"StartWorkflowContext", "ActivityContext"}
           THEN /\ last.err = ""
                /\ last.ret = NoRet
                /\ Len(last.workerOps) = 1
                /\ w.op = "_signal_workflow_execution_op"
                /\ w.domain = last.context.worker.domain
                /\ w.signal_name = self.name
                /\ w.workflow_id = self.workflow_execution[1].workflow_id
                /\ w.run_id = self.workflow_execution[1].run_id
                /\ w.input.data = last.input
           ELSE last.err = "RuntimeError" /\ last.workerOps = << >>

\* C6 as stated: invoking a SignalType whose target is unset fails with the
\* missing-target error (the AttributeError of dereferencing None) and makes no
\* signal request; and the target is unset right after construction.
C6_AsStated ==
  /\ (SignalCall /\ signalTypes[last.self].workflow_execution = None) =>
        last.err = "AttributeError" /\ NoDelegation
  /\ (last.op = "__init__" /\ last.kind = "SignalType") =>
        signalTypes[last.self].workflow_execution = None

\* C6 amended: invoking a SignalType whose target is unset always fails and
\* makes no signal request; the failure is the missing-target AttributeError in
\* a Start or an Activity context, but RuntimeError (unsupported context) in a
\* context of another kind when serialization succeeded, the context check
\* coming before the target is read.  The target is unset right after
\* construction, whatever target the constructor was given.
C6_UnsetTarget ==
  /\ (SignalCall /\ signalTypes[last.self].workflow_execution = None) =>
        /\ last.err # ""
        /\ NoDelegation
        /\ last.context.kind \in {"StartWorkflowContext", "ActivityContext"}
             => last.err = "AttributeError"
        /\ (/\ last.context.kind \in {"DecisionContext", "OtherContext"}
            /\ ~DumpsFails(signalTypes[last.self].data_converter))
             => last.err = "RuntimeError"
  /\ (last.op = "__init__" /\ last.kind = "SignalType") =>
        signalTypes[last.self].workflow_execution = None

C6_Witness ==
  /\ SignalCall
  /\ signalTypes[last.self].workflow_execution = None
  /\ signalTypes[last.self].data_converter = Some(JSONDataConverter)
  /\ last.context.kind = "ActivityContext"
  /\ last.err = "AttributeError"
  /\ last.workerOps = << >>

\* C7 as stated: every descriptor of every kind holds a valid serialization
\* strategy after construction and after any reassignment: None yields the JSON
\* default and a value that is no strategy is refused with TypeError.
C7_AsStated ==
  /\ \A id \in DOMAIN workflowTypes :
        isinstance_AbstractDataConverter(workflowTypes[id]._data_converter)
  /\ \A id \in DOMAIN activityTypes :
        isinstance_AbstractDataConverter(activityTypes[id].data_converter)
  /\ \A id \in DOMAIN signalTypes :
        isinstance_AbstractDataConverter(signalTypes[id].data_converter)

\* C8 as stated: two WorkflowType values compare equal, and hash equal, exactly
\* when their names match and their versions match.
C8_AsStated ==
  (last.op = "compare") =>
     LET a == workflowTypes[last.self]
         b == workflowTypes[last.other]
         same == a.name = b.name /\ a.version = b.version
     IN /\ last.ret.eq <=> same
        /\ last.ret.hash_eq <=> same

DecisionDictReturned ==
  last.op = "to_decision_dict" /\ last.kind = "WorkflowType" /\ last.err = ""

\* The task list C9 expects: the supplied worker task list when the descriptor
\* has the sentinel, the descriptor's own task list otherwise.
C9_Resolved ==
  LET self == workflowTypes[last.self]
      worker_task_list == last.input[2].worker_task_list
  IN IF self.task_list = USE_WORKER_TASK_LIST
     THEN worker_task_list # None =>
            last.ret.dict.task_list.name = worker_task_list[1]
     ELSE last.ret.dict.task_list.name = self.task_list[1]

\* C9 as stated: the decision map's task_list.name is the supplied worker task
\* list for a sentinel descriptor, and the descriptor's explicit task list
\* otherwise.
C9_AsStated == DecisionDictReturned => C9_Resolved

\* C9 amended: that holds unless the context's per-call workflow-option
\* overrides carry a task_list key; then the map's task_list is the override's.
C9_TaskList ==
  DecisionDictReturned =>
     LET overrides == last.context._workflow_options_overrides
     IN IF "task_list" \in DOMAIN overrides
        THEN last.ret.dict.task_list = overrides.task_list
        ELSE C9_Resolved

C9_Witness ==
  /\ DecisionDictReturned
  /\ workflowTypes[last.self].task_list = USE_WORKER_TASK_LIST
  /\ last.input[2].worker_task_list = Some("tl-A")
  /\ "task_list" \notin DOMAIN last.context._workflow_options_overrides
  /\ last.ret.dict.task_list.name = "tl-A"

ContinueAsNewReturned ==
  last.op = "to_continue_as_new_dict" /\ last.kind = "WorkflowType" /\ last.err = ""

\* C10: the keys of the continue-as-new map are among the six whitelisted keys,
\* never workflow_type, domain or workflow_id; a whitelisted key is present
\* exactly when the decision map it is projected from (overrides included) has it.
C10_ContinueAsNewKeys ==
  ContinueAsNewReturned =>
     LET keys == DOMAIN last.ret.dict
         overrides == DOMAIN last.context._workflow_options_overrides
     IN /\ keys \subseteq {"task_start_to_close_timeout", "child_policy", "task_list",
                           "execution_start_to_close_timeout", "version", "input"}
        /\ keys \cap {"workflow_type", "domain", "workflow_id"} = {}
        /\ {"task_start_to_close_timeout", "child_policy", "task_list",
            "execution_start_to_close_timeout", "input"} \subseteq keys
        /\ "version" \in keys <=> "version" \in overrides

C10_Witness ==
  /\ ContinueAsNewReturned
  /\ "workflow_id" \in DOMAIN last.context._workflow_options_overrides
  /\ "workflow_id" \notin DOMAIN last.ret.dict
  /\ "version" \notin DOMAIN last.ret.dict

====
